---- MODULE Spec2Model ----
(***************************************************************************)
(* Nebula: account vault, session importer, launch orchestrator and        *)
(* process watcher of the Electron main process (main.js), its two         *)
(* AuthService instances, the AuthLaunchService and the renderer's launch  *)
(* controls (renderer/js/app.js).                                          *)
(*                                                                         *)
(* A handler is cut into steps at awaits on real I/O (vault access, file   *)
(* writes, the process-list query): other handlers, timer ticks and window *)
(* events interleave there.  Synchronous code and promise continuations    *)
(* between two cuts are one step; the awaits from the vault read of a      *)
(* launch to its first file write are taken as one step as well.           *)
(***************************************************************************)
EXTENDS Integers, Sequences, FiniteSets, TLC

\* Bounds of the model.
MaxLaunches == 2        \* launch requests over a run
MaxInFlight == 2        \* process-list queries one watcher has in flight
MaxCommands == 3        \* user commands (clicks, window events, Riot logins) over a run

\* The Riot accounts of the model, the id add-account generates, all ids.
RiotIds == {"a", "b"}
NewId == "n"
Ids == RiotIds \cup {NewId}
Platforms == {"win32", "darwin"}
Variants == {"beta", "default"}

\* Which of the Riot Client directories exist (fs.access succeeds).
RiotDirs(betaData, betaConfig, defaultData, defaultConfig) ==
    [betaData |-> betaData, betaConfig |-> betaConfig,
     defaultData |-> defaultData, defaultConfig |-> defaultConfig]

\* The installations of the model: the default variant next to a beta data
\* directory that has no config directory, and no directories at all.
RiotInstalls ==
    { RiotDirs(TRUE, FALSE, TRUE, TRUE),
      RiotDirs(FALSE, FALSE, FALSE, FALSE) }

(***************************************************************************)
(* Values                                                                  *)
(***************************************************************************)

\* A cookie map as keytar holds it (JSON); "" stands for a key that is
\* missing or falsy, present = FALSE for null (no vault entry).
NoCookies ==
    [present |-> FALSE, ssid |-> "", sub |-> "", tdid |-> "", clid |-> "", csid |-> ""]

Ssid == [i \in Ids |-> IF i = "a" THEN "S-a" ELSE IF i = "b" THEN "S-b" ELSE "S-n"]

FullCookies(id) ==
    [present |-> TRUE, ssid |-> Ssid[id], sub |-> id, tdid |-> "T", clid |-> "", csid |-> "C"]

\* What the OS credential store can hold for an id when the program starts.
VaultKinds(id) ==
    { NoCookies,
      FullCookies(id),
      [FullCookies(id) EXCEPT !.ssid = ""],
      [FullCookies(id) EXCEPT !.sub = ""] }

\* An entry of an accounts array; cookies = NoCookies is `cookies: undefined`
\* (a key JSON serialization drops). NoAccount is undefined (no entry found).
NoAccount ==
    [id |-> "", username |-> "", region |-> "", lastUsed |-> 0, createdAt |-> 0,
     cookies |-> NoCookies]

StoredAccount(id) ==
    [id |-> id, username |-> id, region |-> IF id = "a" THEN "eu" ELSE "NA",
     lastUsed |-> 0, createdAt |-> 1, cookies |-> NoCookies]

\* The persisted account documents the program can find at start-up.
InitDocuments ==
    { <<StoredAccount("a")>>, <<StoredAccount("a"), StoredAccount("b")>> }

IdsOf(accounts) == { accounts[i].id : i \in 1..Len(accounts) }

\* String.prototype.toUpperCase on the region strings of the model.
toUpperCase(s) ==
    CASE s = "eu" -> "EU"
      [] s = "na" -> "NA"
      [] OTHER -> s

NoFile == [exists |-> FALSE, cookies |-> <<>>]
NoClientFile == [exists |-> FALSE, region |-> "", locale |-> "", patchline |-> ""]

(***************************************************************************)
(* AuthService (the class main.js and auth-launch-service.js construct)    *)
(***************************************************************************)

getAccountById(accounts, accountId) ==
    IF \E i \in 1..Len(accounts) : accounts[i].id = accountId
    THEN accounts[CHOOSE i \in 1..Len(accounts) :
                     /\ accounts[i].id = accountId
                     /\ \A j \in 1..(i-1) : accounts[j].id # accountId]
    ELSE NoAccount

\* getAccounts: the in-memory list of the instance, without a cookies field.
getAccounts(accounts) ==
    [i \in 1..Len(accounts) |-> [accounts[i] EXCEPT !.cookies = NoCookies]]

\* keytar.getPassword + JSON.parse; a backend error is rethrown.
retrieveCookiesSecurely(v, accountId, backendOk) ==
    IF backendOk
    THEN [raised |-> FALSE, cookies |-> v[accountId]]
    ELSE [raised |-> TRUE, cookies |-> NoCookies]

\* this.accounts.filter(acc => acc.id !== accountId)
removeFromAccounts(accounts, accountId) ==
    SelectSeq(accounts, LAMBDA acc : acc.id # accountId)

\* keytar.deletePassword inside try/catch: a failure is logged and swallowed.
deletePassword(v, accountId, backendOk) ==
    IF backendOk THEN [v EXCEPT ![accountId] = NoCookies] ELSE v

\* An updateLastUsed that finds the account and does not stamp it.
updateLastUsedNoStamp(accounts, accountId) == accounts

\* findIndex + lastUsed = Date.now(); the list is unchanged when the id is unknown.
updateLastUsed(accounts, accountId) ==
    IF accountId \in IdsOf(accounts)
    THEN LET k == CHOOSE i \in 1..Len(accounts) :
                     /\ accounts[i].id = accountId
                     /\ \A j \in 1..(i-1) : accounts[j].id # accountId
         IN [accounts EXCEPT ![k].lastUsed = 1]
    ELSE accounts

\* addImportedAccount, "already exists" branch after the vault write: findIndex,
\* then region = accountData.region || region; unchanged when the index is -1.
updateImportedAccount(accounts, accountData) ==
    IF accountData.id \in IdsOf(accounts)
    THEN LET k == CHOOSE i \in 1..Len(accounts) :
                     /\ accounts[i].id = accountData.id
                     /\ \A j \in 1..(i-1) : accounts[j].id # accountData.id
         IN [accounts EXCEPT ![k].region =
                IF accountData.region # "" THEN accountData.region ELSE @]
    ELSE accounts

\* A push of the new account as built, its cookies map left in the entry.
pushImportedAccountKeepsCookies(accounts, accountData) ==
    Append(accounts,
           [id |-> accountData.id,
            username |-> IF accountData.username # "" THEN accountData.username
                         ELSE "Imported Account",
            region |-> IF accountData.region # "" THEN accountData.region ELSE "NA",
            lastUsed |-> 0,
            createdAt |-> 1,
            cookies |-> accountData.cookies])

\* addImportedAccount, "new account" branch after the vault write: push.
pushImportedAccount(accounts, accountData) ==
    Append(accounts,
           [id |-> accountData.id,
            username |-> IF accountData.username # "" THEN accountData.username
                         ELSE "Imported Account",
            region |-> IF accountData.region # "" THEN accountData.region ELSE "NA",
            lastUsed |-> 0,
            createdAt |-> 1,
            cookies |-> NoCookies])

\* addAccount: the cookies of the placeholder authentication (fresh uuids).
simulatedCookies ==
    [present |-> TRUE, ssid |-> Ssid[NewId], sub |-> NewId,
     tdid |-> "T", clid |-> "L", csid |-> "C"]

\* An addAccount that puts the new account in front (unshift in place of push).
pushNewAccountInFront(accounts, username) ==
    << [id |-> NewId, username |-> username, region |-> "NA",
        lastUsed |-> 0, createdAt |-> 1, cookies |-> NoCookies] >> \o accounts

\* addAccount after the vault write: push({...newAccount, cookies: undefined}).
pushNewAccount(accounts, username) ==
    Append(accounts,
           [id |-> simulatedCookies.sub,
            username |-> username,
            region |-> "NA",
            lastUsed |-> 0,
            createdAt |-> 1,
            cookies |-> NoCookies])

(***************************************************************************)
(* AuthLaunchService: session file codec and path resolution               *)
(***************************************************************************)

Cookie(name, httpOnly, value) ==
    [domain |-> "auth.riotgames.com", hostOnly |-> TRUE, httpOnly |-> httpOnly,
     name |-> name, path |-> "/", persistent |-> TRUE, secureOnly |-> TRUE,
     value |-> value]

\* An encoder with a copy slip: the ssid entry carries the tdid value.
createPrivateSettingsYamlSlip(cookies) ==
    [exists |-> TRUE,
     cookies |-> << Cookie("tdid", TRUE, cookies.tdid),
                    Cookie("ssid", TRUE, cookies.tdid),
                    Cookie("clid", TRUE, cookies.clid),
                    Cookie("sub", FALSE, cookies.sub),
                    Cookie("csid", TRUE, cookies.csid) >>]

\* An encoder that leaves out the optional cookies the record does not have.
createPrivateSettingsYamlOmits(cookies) ==
    [exists |-> TRUE,
     cookies |-> SelectSeq(<< Cookie("tdid", TRUE, cookies.tdid),
                              Cookie("ssid", TRUE, cookies.ssid),
                              Cookie("clid", TRUE, cookies.clid),
                              Cookie("sub", FALSE, cookies.sub),
                              Cookie("csid", TRUE, cookies.csid) >>,
                           LAMBDA c : c.value # "" \/ c.name \in {"ssid", "sub"})]

\* An encoder that leaves the csid cookie readable by scripts.
createPrivateSettingsYamlCsidOpen(cookies) ==
    [exists |-> TRUE,
     cookies |-> << Cookie("tdid", TRUE, cookies.tdid),
                    Cookie("ssid", TRUE, cookies.ssid),
                    Cookie("clid", TRUE, cookies.clid),
                    Cookie("sub", FALSE, cookies.sub),
                    Cookie("csid", FALSE, cookies.csid) >>]

\* The document under private / riot-login / persist / session / cookies.
createPrivateSettingsYaml(cookies) ==
    [exists |-> TRUE,
     cookies |-> << Cookie("tdid", TRUE, cookies.tdid),
                    Cookie("ssid", TRUE, cookies.ssid),
                    Cookie("clid", TRUE, cookies.clid),
                    Cookie("sub", FALSE, cookies.sub),
                    Cookie("csid", TRUE, cookies.csid) >>]

createClientSettingsYaml(region) ==
    [exists |-> TRUE,
     region |-> toUpperCase(IF region = "" THEN "NA" ELSE region),
     locale |-> "en_US",
     patchline |-> "live"]

\* The value collected for a cookie name: the last entry of that name with a
\* truthy name and value wins; "" when there is none. An entry without a name
\* or without a value is skipped.
CookieValue(list, name) ==
    LET hits == { i \in 1..Len(list) :
                    /\ "name" \in DOMAIN list[i]
                    /\ "value" \in DOMAIN list[i]
                    /\ list[i].name = name
                    /\ list[i].value # "" }
    IN IF hits = {} THEN ""
       ELSE list[CHOOSE i \in hits : \A j \in hits : j <= i].value

\* A null entry of the cookies array: reading cookie.name on it throws.
NullEntry == [null |-> TRUE]

\* The body of the try block: "null" for a document without the cookies array
\* (empty document, missing path) or without ssid or sub, "raised" when the
\* loop meets a null entry, "map" otherwise.
extractCookiesTry(doc) ==
    IF "cookies" \notin DOMAIN doc THEN "null"
    ELSE IF \E i \in 1..Len(doc.cookies) : doc.cookies[i] = NullEntry THEN "raised"
    ELSE IF CookieValue(doc.cookies, "ssid") # "" /\ CookieValue(doc.cookies, "sub") # ""
    THEN "map"
    ELSE "null"

\* The function without its catch block: the exception leaves the function.
extractCookiesOutcomeNoCatch(doc) == extractCookiesTry(doc)

\* try { ... } catch (error) { return null; }
extractCookiesOutcome(doc) ==
    IF extractCookiesTry(doc) = "raised" THEN "null" ELSE extractCookiesTry(doc)

extractCookiesFromYaml(doc) ==
    IF extractCookiesOutcome(doc) = "map"
    THEN [present |-> TRUE,
          ssid |-> CookieValue(doc.cookies, "ssid"),
          sub  |-> CookieValue(doc.cookies, "sub"),
          tdid |-> CookieValue(doc.cookies, "tdid"),
          clid |-> CookieValue(doc.cookies, "clid"),
          csid |-> CookieValue(doc.cookies, "csid")]
    ELSE NoCookies

\* A resolution that looks for the data and the config directory one by one.
riotDataPathsOneByOne(betaData, betaConfig, defaultData, defaultConfig) ==
    [dataPath   |-> IF betaData THEN "beta" ELSE IF defaultData THEN "default" ELSE "none",
     configPath |-> IF betaConfig THEN "beta" ELSE IF defaultConfig THEN "default" ELSE "none"]

\* The paths object findCurrentRiotDataPaths returns: fs.access on the two beta
\* directories inside one try block, then on the two default directories inside
\* another; "none" in both fields is the thrown error.
riotDataPaths(betaData, betaConfig, defaultData, defaultConfig) ==
    IF betaData /\ betaConfig THEN [dataPath |-> "beta", configPath |-> "beta"]
    ELSE IF defaultData /\ defaultConfig
    THEN [dataPath |-> "default", configPath |-> "default"]
    ELSE [dataPath |-> "none", configPath |-> "none"]

\* The variant of the data path returned; "none" is the thrown error.
findCurrentRiotDataPaths(betaData, betaConfig, defaultData, defaultConfig) ==
    riotDataPaths(betaData, betaConfig, defaultData, defaultConfig).dataPath

\* What the kill command (taskkill, pkill) can report to the exec callback.
KillOutcomes == {"killed", "notFound", "commandError"}

\* A closeRiotProcesses whose exec callback rejects on a command error other
\* than "not found".
closeRiotProcessesRejects(os, outcome) ==
    IF os \in {"win32", "darwin"} /\ outcome = "commandError" THEN "raised"
    ELSE "completed"

\* closeRiotProcesses: the exec callback warns on an error other than "not
\* found" and resolves in every case; other platforms only warn.
closeRiotProcesses(os, outcome) ==
    IF os \in {"win32", "darwin"}
    THEN IF outcome = "commandError" THEN "completed" ELSE "completed"
    ELSE "completed"

\* getRiotClientPath: throws off Windows, throws when no install entry exists.
getRiotClientPath(os, installFound) ==
    IF os # "win32" THEN "notWindows"
    ELSE IF installFound THEN "found"
    ELSE "notFound"

(***************************************************************************)
(* Watcher handle (main.js)                                                *)
(***************************************************************************)

\* stopValorantWatcher: clearInterval on the handle, if any. 0 is null.
stopValorantWatcher(handle, installed) ==
    IF handle # 0
    THEN [handle |-> 0, installed |-> installed \ {handle}]
    ELSE [handle |-> handle, installed |-> installed]

\* A startValorantWatcher that installs the new timer without clearing the old.
startValorantWatcherKeepsOld(handle, installed, timer) ==
    [handle |-> timer, installed |-> installed \cup {timer}]

\* startValorantWatcher: stop, then setInterval; the new timer is `timer`.
startValorantWatcher(handle, installed, timer) ==
    LET stopped == stopValorantWatcher(handle, installed)
    IN [handle |-> timer, installed |-> stopped.installed \cup {timer}]

\* What the process-list query (tasklist, pgrep) can report to the exec callback.
QueryOutcomes == {"listed", "notListed", "exitOne", "commandError"}

\* An isValorantRunning that rejects on an unexpected command error.
isValorantRunningRejects(os, outcome) ==
    IF os \in {"win32", "darwin"} /\ outcome = "commandError"
    THEN [raised |-> TRUE, running |-> FALSE]
    ELSE [raised |-> FALSE, running |-> os \in {"win32", "darwin"} /\ outcome = "listed"]

\* isValorantRunning: exit code 1 and every other command error resolve false,
\* as does an unsupported platform; otherwise stdout decides.
isValorantRunning(os, outcome) ==
    IF os \notin {"win32", "darwin"} THEN [raised |-> FALSE, running |-> FALSE]
    ELSE IF outcome \in {"exitOne", "commandError"}
    THEN [raised |-> FALSE, running |-> FALSE]
    ELSE [raised |-> FALSE, running |-> outcome = "listed"]

\* A tick that reports running whenever the process is present, without
\* looking at valorantFound.
tickEventNoLatch(valorantFound, running) ==
    IF running THEN "running"
    ELSE IF valorantFound THEN "closed"
    ELSE "none"

\* The branch a tick takes once isValorantRunning has answered.
tickEvent(valorantFound, running) ==
    IF running /\ ~valorantFound THEN "running"
    ELSE IF ~running /\ valorantFound THEN "closed"
    ELSE "none"

(***************************************************************************)
(* Renderer: launch controls (renderer/js/app.js)                          *)
(***************************************************************************)

\* A launch control is "none" (no row for the id), "Launch" (enabled), or
\* disabled with the text "Launching..." or "Running".
Disabled(control) == control \in {"Launching...", "Running"}

renderAccounts(accounts) ==
    [i \in Ids |-> IF i \in IdsOf(accounts) THEN "Launch" ELSE "none"]

\* An updateLaunchStatus whose error case disables the button.
updateLaunchStatusErrorDisables(controls, accountId, status) ==
    IF controls[accountId] = "none" THEN controls
    ELSE [controls EXCEPT ![accountId] =
            CASE status = "launching" -> "Launching..."
              [] status = "running"   -> "Running"
              [] status = "closed"    -> "Launch"
              [] status = "error"     -> "Launching..."
              [] OTHER                -> "Launch"]

updateLaunchStatus(controls, accountId, status) ==
    IF controls[accountId] = "none" THEN controls
    ELSE [controls EXCEPT ![accountId] =
            CASE status = "launching" -> "Launching..."
              [] status = "running"   -> "Running"
              [] status = "closed"    -> "Launch"
              [] status = "error"     -> "Launch"
              [] OTHER                -> "Launch"]

\* handleLaunchClick before the invoke: disable the clicked button, status launching.
handleLaunchClickBefore(controls, accountId) ==
    updateLaunchStatus([controls EXCEPT ![accountId] = "Launching..."],
                       accountId, "launching")

\* handleLaunchClick after the invoke settled (a result without success, or a
\* rejection): re-enable the clicked button if it is still in the document,
\* then status error. A success result changes nothing.
handleLaunchClickAfter(controls, accountId, success, nodeInDocument) ==
    IF success THEN controls
    ELSE updateLaunchStatus(
            IF nodeInDocument /\ controls[accountId] # "none"
            THEN [controls EXCEPT ![accountId] = "Launch"]
            ELSE controls,
            accountId, "error")

(***************************************************************************)
(* State                                                                   *)
(***************************************************************************)
VARIABLES
    platform,                \* os.platform()
    riotDirs,                \* the Riot Client directories on disk
    mainWindow,              \* main.js mainWindow is not null
    valorantPath,            \* the store holds a valorantPath
    store,                   \* the persisted 'accounts' document
    accMain,                 \* authService.accounts (main.js)
    accLaunch,               \* authLaunchService.authService.accounts
    vault,                   \* keytar entries by account id
    privateSettings,         \* RiotGamesPrivateSettings.yaml per data directory
    clientSettings,          \* RiotClientSettings.yaml per config directory
    launches,                \* the 'launch-valorant' invocations, in request order
    valorantProcessWatcher,  \* the interval handle of main.js; 0 is null
    timers,                  \* the intervals that are installed (not cleared)
    watch,                   \* per watcher closure: valorantFound, queries in flight, events sent
    controls,                \* renderer: the launch control of each account row
    import,                  \* the 'import-current-account' invocation in flight
    removing,                \* 'remove-account' invocations waiting for keytar
    add,                     \* the 'add-account' invocation
    commands                 \* user commands issued so far

vars == << platform, riotDirs, mainWindow, valorantPath, store, accMain, accLaunch, vault,
           privateSettings, clientSettings, launches, valorantProcessWatcher,
           timers, watch, controls, import, removing, add, commands >>

LaunchIds == 1..MaxLaunches

NoAccountData == [id |-> "", username |-> "", region |-> "", cookies |-> NoCookies]

IdleImport ==
    [pc |-> "idle", accountData |-> NoAccountData, exists |-> FALSE,
     renderer |-> FALSE, result |-> "none"]

IdleAdd == [pc |-> "idle", renderer |-> FALSE, result |-> "none"]

Init ==
    /\ platform \in Platforms
    /\ riotDirs \in RiotInstalls
    /\ mainWindow = TRUE
    /\ valorantPath \in (IF platform = "win32" THEN BOOLEAN ELSE {FALSE})
    /\ store \in InitDocuments
    /\ accMain = store
    /\ accLaunch = store
    /\ vault \in { v \in [Ids -> UNION { VaultKinds(i) : i \in Ids }] :
                     /\ v["a"] \in VaultKinds("a")
                     /\ v["b"] = IF "b" \in IdsOf(store) THEN FullCookies("b")
                                 ELSE NoCookies
                     /\ v[NewId] = NoCookies }
    /\ privateSettings = [v \in Variants |-> NoFile]
    /\ clientSettings = [v \in Variants |-> NoClientFile]
    /\ launches = << >>
    /\ valorantProcessWatcher = 0
    /\ timers = {}
    /\ watch = [w \in LaunchIds |->
                 [found |-> FALSE, inflight |-> 0, running |-> 0, closed |-> 0,
                  queryError |-> FALSE]]
    /\ controls = renderAccounts(getAccounts(accMain))
    /\ import = IdleImport
    /\ removing = [i \in Ids |-> "idle"]
    /\ add = IdleAdd
    /\ commands = 0

(***************************************************************************)
(* ipcMain.handle('launch-valorant')                                       *)
(***************************************************************************)

\* A handler whose first statement is not the send of the launching status.
NewLaunchNoStatus(accountId, account) ==
    [id |-> accountId, pc |-> "retrieve", outcome |-> "pending", error |-> "none",
     account |-> account, cookies |-> NoCookies,
     pathSet |-> FALSE, variant |-> "none",
     killed |-> FALSE, killWarned |-> FALSE, wrotePrivate |-> FALSE,
     wroteClient |-> FALSE, spawned |-> FALSE,
     errorEvents |-> 0, dialog |-> "none", events |-> << >>,
     renderer |-> TRUE, node |-> TRUE]

\* The invocation after line 93: the launching status is sent (events), nothing
\* else has happened.
NewLaunch(accountId, account) ==
    [id |-> accountId, pc |-> "retrieve", outcome |-> "pending", error |-> "none",
     account |-> account, cookies |-> NoCookies,
     pathSet |-> FALSE, variant |-> "none",
     killed |-> FALSE, killWarned |-> FALSE, wrotePrivate |-> FALSE,
     wroteClient |-> FALSE, spawned |-> FALSE,
     errorEvents |-> 0, dialog |-> "none", events |-> << "launching" >>,
     renderer |-> TRUE, node |-> TRUE]

\* A failure return or the catch block of the handler: send the error status,
\* show the dialog (if any), return {success: false}. With mainWindow null the
\* send throws a TypeError; thrown from the catch block it rejects the handler.
Failed(rec, kind, dlg) ==
    IF mainWindow
    THEN [rec EXCEPT !.pc = "done", !.outcome = "failure", !.error = kind,
                     !.errorEvents = @ + 1, !.dialog = dlg,
                     !.events = Append(@, "error")]
    ELSE [rec EXCEPT !.pc = "done", !.outcome = "rejected", !.error = kind]

\* The renderer after that: the error status event, then the invoke result.
ControlsAfterFailure(rec) ==
    IF mainWindow
    THEN LET shown == updateLaunchStatus(controls, rec.id, "error")
         IN IF rec.renderer
            THEN handleLaunchClickAfter(shown, rec.id, FALSE, rec.node)
            ELSE shown
    ELSE controls

FinishFailed(l, rec, kind, dlg) ==
    /\ launches' = [launches EXCEPT ![l] = Failed(rec, kind, dlg)]
    /\ controls' = ControlsAfterFailure(rec)

\* The click on an enabled launch control and lines 93-97: status launching,
\* getAccountById, keytar.getPassword started.
LaunchRequest(accountId) ==
    /\ mainWindow
    /\ controls[accountId] = "Launch"
    /\ Len(launches) < MaxLaunches
    /\ launches' = Append(launches, NewLaunch(accountId, getAccountById(accMain, accountId)))
    /\ controls' = updateLaunchStatus(handleLaunchClickBefore(controls, accountId),
                                      accountId, "launching")
    /\ UNCHANGED << platform, riotDirs, mainWindow, valorantPath, store, accMain, accLaunch,
                    vault, privateSettings, clientSettings, valorantProcessWatcher,
                    timers, watch, import, removing, add >>
    /\ commands < MaxCommands
    /\ commands' = commands + 1

\* Lines 97-114 and launchValorant up to the first writeFile: the vault read
\* returns, validation, path verification, the argument checks of
\* launchValorant, closeRiotProcesses, getRiotClientPath,
\* findCurrentRiotDataPaths and the two mkdir calls on the directories found.
LaunchValidate(l, backendOk, installFound, killOutcome) ==
    LET rec     == launches[l]
        read    == retrieveCookiesSecurely(vault, rec.id, backendOk)
        exe     == getRiotClientPath(platform, installFound)
        variant == findCurrentRiotDataPaths(riotDirs.betaData, riotDirs.betaConfig,
                                            riotDirs.defaultData, riotDirs.defaultConfig)
        seen    == [rec EXCEPT !.cookies = read.cookies, !.pathSet = valorantPath]
        ended   == closeRiotProcesses(platform, killOutcome)
        closed  == [seen EXCEPT !.killed = (ended = "completed"),
                                !.killWarned = (killOutcome = "commandError")]
    IN /\ rec.pc = "retrieve"
       /\ IF read.raised
          THEN FinishFailed(l, seen, "vaultRead", "Launch Error")
          ELSE IF rec.account = NoAccount \/ ~read.cookies.present \/ read.cookies.ssid = ""
          THEN FinishFailed(l, seen, "incomplete", "none")
          ELSE IF exe # "found"
          THEN FinishFailed(l, seen, exe, "Launch Error")
          ELSE IF ~valorantPath
          THEN FinishFailed(l, seen, "notConfigured", "Error")
          ELSE IF rec.account.id = ""
          THEN FinishFailed(l, seen, "invalidAccount", "Launch Error")
          ELSE IF read.cookies.sub = ""
          THEN FinishFailed(l, seen, "invalidCookies", "Launch Error")
          ELSE IF ended # "completed"
          THEN FinishFailed(l, closed, "kill", "Launch Error")
          ELSE IF variant = "none"
          THEN FinishFailed(l, closed, "paths", "Launch Error")
          ELSE /\ launches' = [launches EXCEPT ![l] =
                                 [closed EXCEPT !.pc = "writePrivate", !.variant = variant]]
               /\ UNCHANGED controls
       /\ UNCHANGED << platform, riotDirs, mainWindow, valorantPath, store, accMain, accLaunch,
                       vault, privateSettings, clientSettings, valorantProcessWatcher,
                       timers, watch, import, removing, commands, add >>

\* fs.writeFile of RiotGamesPrivateSettings.yaml settles.
LaunchWritePrivate(l, writeOk) ==
    LET rec == launches[l]
    IN /\ rec.pc = "writePrivate"
       /\ IF writeOk
          THEN /\ privateSettings' = [privateSettings EXCEPT ![rec.variant] =
                                        createPrivateSettingsYaml(rec.cookies)]
               /\ launches' = [launches EXCEPT ![l] =
                                 [rec EXCEPT !.pc = "writeClient", !.wrotePrivate = TRUE]]
               /\ UNCHANGED controls
          ELSE /\ FinishFailed(l, rec, "write", "Launch Error")
               /\ UNCHANGED privateSettings
       /\ UNCHANGED << platform, riotDirs, mainWindow, valorantPath, store, accMain, accLaunch,
                       vault, clientSettings, valorantProcessWatcher,
                       timers, watch, import, removing, commands, add >>

\* A launch that spawns the Riot Client without looking at the outcome of the
\* second write.
LaunchWriteClientSpawnsAnyway(l, writeOk, spawnOk) ==
    /\ launches[l].pc = "writeClient"
    /\ launches' = [launches EXCEPT ![l] =
                      [launches[l] EXCEPT !.pc = "done", !.spawned = TRUE,
                                          !.outcome = "success"]]
    /\ UNCHANGED << platform, riotDirs, mainWindow, valorantPath, store, accMain, accLaunch,
                    vault, privateSettings, clientSettings, valorantProcessWatcher,
                    timers, watch, controls, import, removing, commands, add >>

\* fs.writeFile of RiotClientSettings.yaml settles; then spawn, updateLastUsed,
\* startValorantWatcher and the success result follow without real I/O.
LaunchWriteClient(l, writeOk, spawnOk) ==
    LET rec     == launches[l]
        written == [rec EXCEPT !.wroteClient = TRUE]
        started == startValorantWatcher(valorantProcessWatcher, timers, l)
    IN /\ rec.pc = "writeClient"
       /\ IF ~writeOk
          THEN /\ FinishFailed(l, rec, "write", "Launch Error")
               /\ UNCHANGED << clientSettings, accMain, store, valorantProcessWatcher,
                               timers, watch >>
          ELSE /\ clientSettings' = [clientSettings EXCEPT ![rec.variant] =
                                       createClientSettingsYaml(rec.account.region)]
               /\ IF ~spawnOk
                  THEN /\ FinishFailed(l, written, "spawn", "Launch Error")
                       /\ UNCHANGED << accMain, store, valorantProcessWatcher, timers, watch >>
                  ELSE /\ launches' = [launches EXCEPT ![l] =
                                         [written EXCEPT !.pc = "done", !.spawned = TRUE,
                                                         !.outcome = "success"]]
                       /\ accMain' = updateLastUsed(accMain, rec.id)
                       /\ store' = IF rec.id \in IdsOf(accMain) THEN accMain' ELSE store
                       /\ valorantProcessWatcher' = started.handle
                       /\ timers' = started.installed
                       /\ watch' = [watch EXCEPT ![l].found = FALSE]
                       /\ controls' = IF rec.renderer
                                      THEN handleLaunchClickAfter(controls, rec.id, TRUE, rec.node)
                                      ELSE controls
       /\ UNCHANGED << platform, riotDirs, mainWindow, valorantPath, accLaunch, vault,
                       privateSettings, import, removing, commands, add >>

(***************************************************************************)
(* The watcher's interval callback (main.js startValorantWatcher)          *)
(***************************************************************************)

\* The interval fires: isValorantRunning starts its process-list query.
TickStart(w) ==
    /\ w \in timers
    /\ watch[w].inflight < MaxInFlight
    /\ watch' = [watch EXCEPT ![w].inflight = @ + 1]
    /\ UNCHANGED << platform, riotDirs, mainWindow, valorantPath, store, accMain, accLaunch,
                    vault, privateSettings, clientSettings, launches,
                    valorantProcessWatcher, timers, controls, import, removing, commands, add >>

\* isValorantRunning settles and the rest of the callback runs; queryError
\* notes that the query of the tick ended with a command error (the log line). A send with mainWindow null throws inside the try block:
\* the statements after it are skipped.
TickDone(w, outcome) ==
    LET accountId == launches[w].id
        query     == isValorantRunning(platform, outcome)
        failed    == outcome \in {"exitOne", "commandError"}
        event     == IF query.raised THEN "none"
                     ELSE tickEvent(watch[w].found, query.running)
        stopped   == stopValorantWatcher(valorantProcessWatcher, timers)
    IN /\ watch[w].inflight > 0
       /\ IF event = "running"
          THEN /\ watch' = [watch EXCEPT ![w].inflight = @ - 1, ![w].found = TRUE,
                                         ![w].running = IF mainWindow THEN @ + 1 ELSE @,
                                         ![w].queryError = failed]
               /\ controls' = IF mainWindow
                              THEN updateLaunchStatus(controls, accountId, "running")
                              ELSE controls
               /\ UNCHANGED << valorantProcessWatcher, timers >>
          ELSE IF event = "closed"
          THEN IF mainWindow
               THEN /\ watch' = [watch EXCEPT ![w].inflight = @ - 1, ![w].closed = @ + 1,
                                              ![w].queryError = failed]
                    /\ controls' = updateLaunchStatus(controls, accountId, "closed")
                    /\ valorantProcessWatcher' = stopped.handle
                    /\ timers' = stopped.installed
               ELSE /\ watch' = [watch EXCEPT ![w].inflight = @ - 1,
                                              ![w].queryError = failed]
                    /\ UNCHANGED << controls, valorantProcessWatcher, timers >>
          ELSE /\ watch' = [watch EXCEPT ![w].inflight = @ - 1, ![w].queryError = failed]
               /\ UNCHANGED << controls, valorantProcessWatcher, timers >>
       /\ UNCHANGED << platform, riotDirs, mainWindow, valorantPath, store, accMain, accLaunch,
                       vault, privateSettings, clientSettings, launches, import, removing, commands, add >>

(***************************************************************************)
(* ipcMain.handle('import-current-account')                                *)
(***************************************************************************)

\* A handler that answers {success: true} where the code answers with the error.
ImportAnswersSuccess == [IdleImport EXCEPT !.result = "success"]

\* The handler's catch block: {success: false, error: error.message}.
ImportFailed == [IdleImport EXCEPT !.result = "failure"]

\* The click on "Import Current", findCurrentRiotDataPaths, readPrivateSettings,
\* extractCookiesFromYaml and addImportedAccount up to keytar.setPassword.
ImportRead(readOk) ==
    LET variant == findCurrentRiotDataPaths(riotDirs.betaData, riotDirs.betaConfig,
                                            riotDirs.defaultData, riotDirs.defaultConfig)
        doc     == IF variant = "none" THEN NoFile ELSE privateSettings[variant]
        cookies == IF doc.exists THEN extractCookiesFromYaml(doc) ELSE NoCookies
        data    == [id |-> cookies.sub, username |-> "Imported", region |-> "NA",
                    cookies |-> cookies]
    IN /\ mainWindow
       /\ import.pc = "idle"
       /\ IF variant = "none"
          THEN import' = ImportFailed
          ELSE IF ~doc.exists \/ ~readOk
          THEN import' = ImportFailed
          ELSE IF ~cookies.present \/ cookies.ssid = "" \/ cookies.sub = ""
          THEN import' = ImportFailed
          ELSE import' = [pc |-> "storing", accountData |-> data,
                          exists |-> data.id \in IdsOf(accLaunch),
                          renderer |-> TRUE, result |-> "none"]
       /\ UNCHANGED << platform, riotDirs, mainWindow, valorantPath, store, accMain, accLaunch,
                       vault, privateSettings, clientSettings, launches,
                       valorantProcessWatcher, timers, watch, controls, removing, add >>
       /\ commands < MaxCommands
       /\ commands' = commands + 1

\* keytar.setPassword settles; the account list of the launch service's
\* AuthService is updated and written to the store; on success the renderer
\* reloads the list through 'get-accounts' and renders it anew.
ImportStored(backendOk) ==
    LET data == import.accountData
    IN /\ import.pc = "storing"
       /\ IF ~backendOk
          THEN /\ import' = ImportFailed
               /\ UNCHANGED << vault, accLaunch, store, controls, launches >>
          ELSE /\ vault' = [vault EXCEPT ![data.id] = data.cookies]
               /\ IF import.exists /\ data.id \notin IdsOf(accLaunch)
                  THEN /\ import' = ImportFailed
                       /\ UNCHANGED << accLaunch, store, controls, launches >>
                  ELSE /\ accLaunch' = IF import.exists
                                       THEN updateImportedAccount(accLaunch, data)
                                       ELSE pushImportedAccount(accLaunch, data)
                       /\ store' = accLaunch'
                       /\ import' = [IdleImport EXCEPT !.result = "success",
                                                       !.accountData = data]
                       /\ IF import.renderer
                          THEN /\ controls' = renderAccounts(getAccounts(accMain))
                               /\ launches' = [l \in DOMAIN launches |->
                                                 [launches[l] EXCEPT !.node = FALSE]]
                          ELSE UNCHANGED << controls, launches >>
       /\ UNCHANGED << platform, riotDirs, mainWindow, valorantPath, accMain,
                       privateSettings, clientSettings,
                       valorantProcessWatcher, timers, watch, removing, commands, add >>

(***************************************************************************)
(* ipcMain.handle('add-account')                                           *)
(***************************************************************************)

\* An add handler that answers {success: true} where the code answers with the error.
AddAnswersSuccess == [IdleAdd EXCEPT !.result = "success"]

\* The handler's catch block: {success: false, error: error.message}.
AddFailed == [IdleAdd EXCEPT !.result = "failure"]

\* The form submit and addAccount up to keytar.setPassword. The id is a fresh
\* uuid: the model has one such id, so one add-account command per run.
AddRequest ==
    /\ mainWindow
    /\ add.pc = "idle"
    /\ add.result = "none"
    /\ IF simulatedCookies.sub \in IdsOf(accMain)
       THEN add' = AddFailed
       ELSE add' = [pc |-> "storing", renderer |-> TRUE, result |-> "none"]
    /\ UNCHANGED << platform, riotDirs, mainWindow, valorantPath, store, accMain, accLaunch,
                    vault, privateSettings, clientSettings, launches,
                    valorantProcessWatcher, timers, watch, controls, import, removing >>
    /\ commands < MaxCommands
    /\ commands' = commands + 1

\* keytar.setPassword settles; the account is pushed and the list written to
\* the store; on success the renderer reloads and renders the list.
AddStored(backendOk) ==
    /\ add.pc = "storing"
    /\ IF ~backendOk
       THEN /\ add' = AddFailed
            /\ UNCHANGED << vault, accMain, store, controls, launches >>
       ELSE /\ vault' = [vault EXCEPT ![simulatedCookies.sub] = simulatedCookies]
            /\ accMain' = pushNewAccount(accMain, "user")
            /\ store' = accMain'
            /\ add' = [IdleAdd EXCEPT !.result = "success"]
            /\ IF add.renderer
               THEN /\ controls' = renderAccounts(getAccounts(accMain'))
                    /\ launches' = [l \in DOMAIN launches |->
                                      [launches[l] EXCEPT !.node = FALSE]]
               ELSE UNCHANGED << controls, launches >>
    /\ UNCHANGED << platform, riotDirs, mainWindow, valorantPath, accLaunch,
                    privateSettings, clientSettings,
                    valorantProcessWatcher, timers, watch, import, removing, commands >>

(***************************************************************************)
(* ipcMain.handle('remove-account')                                        *)
(***************************************************************************)

\* The click on "Remove" and removeAccount up to keytar.deletePassword.
RemoveRequest(accountId) ==
    /\ mainWindow
    /\ controls[accountId] # "none"
    /\ removing[accountId] = "idle"
    /\ accMain' = removeFromAccounts(accMain, accountId)
    /\ store' = accMain'
    /\ removing' = [removing EXCEPT ![accountId] = "pending"]
    /\ UNCHANGED << platform, riotDirs, mainWindow, valorantPath, accLaunch, vault,
                    privateSettings, clientSettings, launches,
                    valorantProcessWatcher, timers, watch, controls, import, add >>
    /\ commands < MaxCommands
    /\ commands' = commands + 1

\* keytar.deletePassword settles; {success: true}; the renderer drops the row.
RemoveDone(accountId, backendOk) ==
    /\ removing[accountId] # "idle"
    /\ vault' = deletePassword(vault, accountId, backendOk)
    /\ removing' = [removing EXCEPT ![accountId] = "idle"]
    /\ controls' = IF removing[accountId] = "pending"
                   THEN [controls EXCEPT ![accountId] = "none"]
                   ELSE controls
    /\ UNCHANGED << platform, riotDirs, mainWindow, valorantPath, store, accMain, accLaunch,
                    privateSettings, clientSettings, launches,
                    valorantProcessWatcher, timers, watch, import, commands, add >>

(***************************************************************************)
(* Window and settings                                                     *)
(***************************************************************************)

\* mainWindow.on('closed'): mainWindow = null, stopValorantWatcher. The
\* renderer is gone: its pending invocations get no continuation.
WindowClosed ==
    LET stopped == stopValorantWatcher(valorantProcessWatcher, timers)
    IN /\ mainWindow
       /\ mainWindow' = FALSE
       /\ valorantProcessWatcher' = stopped.handle
       /\ timers' = stopped.installed
       /\ controls' = [i \in Ids |-> "none"]
       /\ launches' = [l \in DOMAIN launches |->
                         [launches[l] EXCEPT !.renderer = FALSE, !.node = FALSE]]
       /\ import' = [import EXCEPT !.renderer = FALSE]
       /\ add' = [add EXCEPT !.renderer = FALSE]
       /\ removing' = [i \in Ids |-> IF removing[i] = "pending" THEN "orphaned"
                                     ELSE removing[i]]
       /\ UNCHANGED << platform, riotDirs, valorantPath, store, accMain, accLaunch, vault,
                       privateSettings, clientSettings, watch >>
       /\ commands < MaxCommands
       /\ commands' = commands + 1

\* app.on('activate') with no window (macOS keeps the app alive): createWindow;
\* the new renderer loads and renders the accounts.
Activate ==
    /\ platform = "darwin"
    /\ ~mainWindow
    /\ mainWindow' = TRUE
    /\ controls' = renderAccounts(getAccounts(accMain))
    /\ UNCHANGED << platform, riotDirs, valorantPath, store, accMain, accLaunch, vault,
                    privateSettings, clientSettings, launches,
                    valorantProcessWatcher, timers, watch, import, removing, add >>
    /\ commands < MaxCommands
    /\ commands' = commands + 1

\* ipcMain.handle('select-valorant-path'): the path is stored when
\* getRiotClientPath finds the client.
SelectValorantPath(installFound) ==
    /\ mainWindow
    /\ ~valorantPath
    /\ getRiotClientPath(platform, installFound) = "found"
    /\ valorantPath' = TRUE
    /\ UNCHANGED << platform, riotDirs, mainWindow, store, accMain, accLaunch, vault,
                    privateSettings, clientSettings, launches,
                    valorantProcessWatcher, timers, watch, controls, import, removing, add >>
    /\ commands < MaxCommands
    /\ commands' = commands + 1

(***************************************************************************)
(* Environment: the Riot Client writes its own session file                *)
(***************************************************************************)

\* The session file of a Riot Client logged in as `owner`.
RiotSessionFile(owner) ==
    [exists |-> TRUE,
     cookies |-> << Cookie("tdid", TRUE, "T"),
                    Cookie("ssid", TRUE, Ssid[owner]),
                    Cookie("clid", TRUE, ""),
                    Cookie("sub", FALSE, owner),
                    Cookie("csid", TRUE, "C") >>]

\* The user logs in with the Riot Client. The client does not rewrite the
\* file while a launch that terminated it is rewriting the files.
RiotClientLogin(variant, owner) ==
    /\ \A l \in DOMAIN launches : launches[l].pc \notin {"writePrivate", "writeClient"}
    /\ variant = findCurrentRiotDataPaths(riotDirs.betaData, riotDirs.betaConfig,
                                           riotDirs.defaultData, riotDirs.defaultConfig)
    /\ privateSettings[variant] # RiotSessionFile(owner)
    /\ privateSettings' = [privateSettings EXCEPT ![variant] = RiotSessionFile(owner)]
    /\ UNCHANGED << platform, riotDirs, mainWindow, valorantPath, store, accMain, accLaunch,
                    vault, clientSettings, launches, valorantProcessWatcher,
                    timers, watch, controls, import, removing, add >>
    /\ commands < MaxCommands
    /\ commands' = commands + 1

\* The session file of a Riot Client that is logged out: no session cookies.
RiotLoggedOutFile == [exists |-> TRUE, cookies |-> << >>]

\* The Riot Client runs logged out (first start or after a log-out) and writes
\* its file, under the same condition.
RiotClientLogout(variant) ==
    /\ \A l \in DOMAIN launches : launches[l].pc \notin {"writePrivate", "writeClient"}
    /\ variant = findCurrentRiotDataPaths(riotDirs.betaData, riotDirs.betaConfig,
                                           riotDirs.defaultData, riotDirs.defaultConfig)
    /\ privateSettings[variant] # RiotLoggedOutFile
    /\ privateSettings' = [privateSettings EXCEPT ![variant] = RiotLoggedOutFile]
    /\ UNCHANGED << platform, riotDirs, mainWindow, valorantPath, store, accMain, accLaunch,
                    vault, clientSettings, launches, valorantProcessWatcher,
                    timers, watch, controls, import, removing, add >>
    /\ commands < MaxCommands
    /\ commands' = commands + 1

(***************************************************************************)
(* Specification                                                           *)
(***************************************************************************)

Next ==
    \/ \E i \in Ids : LaunchRequest(i)
    \/ \E l \in DOMAIN launches, ok \in BOOLEAN, inst \in BOOLEAN, kill \in KillOutcomes :
          LaunchValidate(l, ok, inst, kill)
    \/ \E l \in DOMAIN launches, ok \in BOOLEAN : LaunchWritePrivate(l, ok)
    \/ \E l \in DOMAIN launches, ok \in BOOLEAN, sp \in BOOLEAN :
          LaunchWriteClient(l, ok, sp)
    \/ \E w \in DOMAIN launches : TickStart(w)
    \/ \E w \in DOMAIN launches, outcome \in {"listed", "notListed"} : TickDone(w, outcome)
    \/ \E ok \in BOOLEAN : ImportRead(ok)
    \/ \E ok \in BOOLEAN : ImportStored(ok)
    \/ \E i \in Ids : RemoveRequest(i)
    \/ \E i \in Ids, ok \in BOOLEAN : RemoveDone(i, ok)
    \/ WindowClosed
    \/ Activate
    \/ \E inst \in BOOLEAN : SelectValorantPath(inst)
    \/ \E v \in Variants, i \in RiotIds : RiotClientLogin(v, i)
    \/ \E v \in Variants : RiotClientLogout(v)
    \/ AddRequest
    \/ \E ok \in BOOLEAN : AddStored(ok)

Spec == Init /\ [][Next]_vars

\* The launch and its watcher with every outcome of the process-list query.
\* (Next leaves the two error outcomes out: they differ from "notListed" in
\* the queryError note alone.)
WatcherNext ==
    \/ \E i \in Ids : LaunchRequest(i)
    \/ \E l \in DOMAIN launches, inst \in BOOLEAN : LaunchValidate(l, TRUE, inst, "killed")
    \/ \E l \in DOMAIN launches : LaunchWritePrivate(l, TRUE)
    \/ \E l \in DOMAIN launches : LaunchWriteClient(l, TRUE, TRUE)
    \/ \E w \in DOMAIN launches : TickStart(w)
    \/ \E w \in DOMAIN launches, outcome \in QueryOutcomes : TickDone(w, outcome)
    \/ WindowClosed

WatcherSpec == Init /\ [][WatcherNext]_vars

(***************************************************************************)
(* Properties                                                              *)
(***************************************************************************)

\* The launch ends in this step.
Returns(l) == launches[l].pc # "done" /\ launches'[l].pc = "done"

\* The launch terminated no process, wrote no config file, spawned no process.
NoSideEffects(rec) ==
    ~rec.killed /\ ~rec.wrotePrivate /\ ~rec.wroteClient /\ ~rec.spawned

\* A tick of watcher w sends a running or closed event in this step.
EventEmitted(w) ==
    \/ watch'[w].running > watch[w].running
    \/ watch'[w].closed > watch[w].closed

\* C1: a launch that finds the secret record absent or without ssid (the vault
\* read itself answering) ends with the error event for incomplete data and
\* the result success = false, and terminates, writes and spawns nothing.
C1_IncompleteSecretFails ==
    \A l \in DOMAIN launches :
        ( /\ launches[l].pc = "done"
          /\ launches[l].error # "vaultRead"
          /\ ~launches[l].cookies.present \/ launches[l].cookies.ssid = "" )
        => /\ launches[l].outcome = "failure"
           /\ launches[l].error = "incomplete"
           /\ launches[l].errorEvents = 1
           /\ NoSideEffects(launches[l])

\* C2: once a watcher of another account is installed in place of watcher w,
\* no tick of w sends a running or closed event any more: only ticks of the
\* installed watcher send events.
C2_NoEventFromReplacedWatcher ==
    [][ \A w \in DOMAIN launches :
          ( /\ EventEmitted(w)
            /\ valorantProcessWatcher \notin {0, w}
            /\ launches[valorantProcessWatcher].id # launches[w].id )
          => FALSE ]_vars

\* C3: in every reachable state at most one watcher timer is installed.
C3_AtMostOneTimer == Cardinality(timers) <= 1

\* C3 witness: a second successful launch has replaced the first one's watcher.
C3_WatcherReplaced ==
    /\ Len(launches) = 2
    /\ launches[1].outcome = "success"
    /\ launches[2].outcome = "success"
    /\ valorantProcessWatcher = 2
    /\ timers = {2}

\* C4: a launch that returns success (complete secret, configured path, every
\* I/O step succeeding) leaves, at the moment it returns, the private settings
\* file with its account's ssid and sub and the client settings file with its
\* account's upper-cased region.
C4_FilesHoldAccountAtReturn ==
    [][ \A l \in DOMAIN launches :
          (Returns(l) /\ launches'[l].outcome = "success")
          => LET rec == launches'[l]
                 got == extractCookiesFromYaml(privateSettings'[rec.variant])
             IN /\ got.ssid = rec.cookies.ssid
                /\ got.sub = rec.cookies.sub
                /\ clientSettings'[rec.variant].region = toUpperCase(rec.account.region) ]_vars

\* C5: when removeAccount(id) completes, the account list has no entry with
\* the id and the vault has no entry for the id.
C5_RemoveClearsDirectoryAndVault ==
    [][ \A i \in Ids :
          (removing[i] # "idle" /\ removing'[i] = "idle")
          => /\ i \notin IdsOf(accMain')
             /\ ~vault'[i].present ]_vars

\* C6: when import-current-account returns success for the session of u,
\* get-accounts lists u and launch(u) finds the account and its secret.
C6_ImportedAccountIsListed ==
    [][ (import.pc = "storing" /\ import'.result = "success")
        => LET u == import.accountData.id
           IN /\ u \in IdsOf(getAccounts(accMain'))
              /\ getAccountById(accMain', u) # NoAccount
              /\ vault'[u].present /\ vault'[u].ssid # "" ]_vars

\* C7: every launch ends with a result {success: true|false}, never with a
\* rejection, and a failed launch has sent exactly one error event.
C7_LaunchAlwaysReturnsResult ==
    \A l \in DOMAIN launches :
        launches[l].pc = "done"
        => /\ launches[l].outcome \in {"success", "failure"}
           /\ launches[l].outcome = "failure" => launches[l].errorEvents = 1

\* C8: a launch of a complete account that finds the install path not
\* configured, or the executable not discoverable, ends with the error event,
\* a blocking notification and the result success = false, and terminates,
\* writes and spawns nothing.
C8_UnconfiguredTargetFails ==
    \A l \in DOMAIN launches :
        ( /\ launches[l].pc = "done"
          /\ launches[l].account # NoAccount
          /\ launches[l].cookies.present /\ launches[l].cookies.ssid # ""
          /\ ~launches[l].pathSet \/ launches[l].error \in {"notFound", "notWindows"} )
        => /\ launches[l].outcome = "failure"
           /\ launches[l].errorEvents = 1
           /\ launches[l].dialog # "none"
           /\ NoSideEffects(launches[l])

\* C9: a launch whose secret has ssid but no sub, or whose account entry does
\* not exist, ends with the error event before any process is terminated and
\* before any config file is written.
C9_MissingOwnerOrAccountFails ==
    \A l \in DOMAIN launches :
        ( /\ launches[l].pc = "done"
          /\ launches[l].error # "vaultRead"
          /\ \/ launches[l].account = NoAccount
             \/ launches[l].cookies.ssid # "" /\ launches[l].cookies.sub = "" )
        => /\ launches[l].outcome = "failure"
           /\ launches[l].errorEvents = 1
           /\ NoSideEffects(launches[l])

\* C10: when a failed launch has delivered its error event and its failure
\* result to the renderer that requested it, the launch control of the account
\* is not disabled: it is the enabled 'Launch' button (or the row is gone).
C10_ControlActionableAfterFailure ==
    [][ \A l \in DOMAIN launches :
          (Returns(l) /\ launches'[l].outcome = "failure" /\ launches'[l].renderer)
          => ~Disabled(controls'[launches[l].id]) ]_vars

\* C10 witness: a launch failed at its last step (spawn), its failure was
\* delivered, and the control of its account is the enabled 'Launch' button.
C10_FailedLaunchControlEnabled ==
    \E l \in DOMAIN launches :
        /\ launches[l].outcome = "failure"
        /\ launches[l].error = "spawn"
        /\ launches[l].renderer
        /\ controls[launches[l].id] = "Launch"

\* The entry of the account list for an id; NoAccount when there is none.
\* (The lists of the model hold an id at most once where this is used.)
LastUsedOf(accounts, accountId) == getAccountById(accounts, accountId).lastUsed

\* C11: the step in which a launch returns success sets lastUsed of its account
\* (in memory and in the persisted document, when the account is still listed)
\* and leaves the watcher of that launch installed; every other step of a
\* launch, the failing return included, leaves the account lists, the
\* persisted document, the vault and the installed watcher unchanged.
C11_LaunchFrame ==
    [][ \A l \in DOMAIN launches :
          launches'[l].pc # launches[l].pc
          => IF launches'[l].outcome = "success"
             THEN /\ valorantProcessWatcher' = l
                  /\ timers' = {l}
                  /\ launches[l].id \in IdsOf(accMain)
                     => /\ LastUsedOf(accMain', launches[l].id) = 1
                        /\ LastUsedOf(store', launches[l].id) = 1
             ELSE UNCHANGED << accMain, accLaunch, store, vault,
                               valorantProcessWatcher, timers >> ]_vars

\* C11 witness: a launch succeeded (lastUsed set, its watcher installed) and a
\* later launch failed at a file write, the watcher of the first still installed.
C11_SuccessThenFailure ==
    /\ Len(launches) = 2
    /\ launches[1].outcome = "success"
    /\ launches[2].outcome = "failure"
    /\ launches[2].error = "write"
    /\ launches[2].wrotePrivate
    /\ valorantProcessWatcher = 1
    /\ LastUsedOf(accMain, launches[1].id) = 1
    /\ launches[2].id \in IdsOf(accMain)
    /\ LastUsedOf(accMain, launches[2].id) = 0

\* Watcher w sees the process present for the first time in this step.
FirstSeenPresent(w) == ~watch[w].found /\ watch'[w].found

\* C12: a watcher sends (accountId, running) in the step in which one of its
\* ticks first observes the process present (the window existing), in no
\* other step, and at most once, also when its ticks overlap.
C12_RunningOnceAtFirstPresence ==
    [][ \A w \in DOMAIN launches :
          /\ watch'[w].running <= 1
          /\ (FirstSeenPresent(w) /\ mainWindow)
             => watch'[w].running = watch[w].running + 1
          /\ watch'[w].running # watch[w].running => FirstSeenPresent(w) ]_vars

\* C12 witness: a watcher has sent running once, and two overlapping ticks of
\* the same watcher are in flight after that.
C12_RunningSentTicksOverlap ==
    \E w \in DOMAIN launches :
        /\ watch[w].running = 1
        /\ watch[w].found
        /\ watch[w].inflight = 2

\* C13: a watcher sends (accountId, closed) only at a tick that observes the
\* process absent after the watcher has seen it present; it sends it at most
\* once, its timer is not installed after that tick, and it sends no event
\* afterwards.
C13_ClosedOnceThenSilent ==
    [][ \A w \in DOMAIN launches :
          /\ watch'[w].closed > watch[w].closed
             => /\ watch[w].found
                /\ w \notin timers'
          /\ watch'[w].closed <= 1
          /\ watch[w].closed >= 1 => ~EventEmitted(w) ]_vars

\* C14: when an add, import or remove command completes, the id it was about
\* has an entry in the persisted account document if and only if the vault
\* holds a secret record for it, also when the vault write or delete failed.
C14_DirectoryVaultOneToOne ==
    [][ /\ \A i \in Ids :
             (removing[i] # "idle" /\ removing'[i] = "idle")
             => (i \in IdsOf(store') <=> vault'[i].present)
        /\ (import.pc = "storing" /\ import'.pc = "idle")
           => (import.accountData.id \in IdsOf(store')
                 <=> vault'[import.accountData.id].present)
        /\ (add.pc = "storing" /\ add'.pc = "idle")
           => (NewId \in IdsOf(store') <=> vault'[NewId].present) ]_vars

\* The entry carries no secret: no cookies map and no cookie field of its own.
NoSecretField(entry) ==
    /\ entry.cookies = NoCookies
    /\ DOMAIN entry \cap {"ssid", "clid", "csid", "tdid"} = {}

\* C15: in every reachable state no entry of the persisted account document
\* and no account returned by get-accounts carries a secret field.
C15_NoSecretsInDirectory ==
    /\ \A i \in 1..Len(store) : NoSecretField(store[i])
    /\ \A i \in 1..Len(accMain) : NoSecretField(getAccounts(accMain)[i])

\* C15 witness: an imported account and an added account are both entries of
\* the persisted document or of the get-accounts list, their secrets in the vault.
C15_ImportedAndAddedListed ==
    /\ import.result = "success"
    /\ add.result = "success"
    /\ import.accountData.id \in IdsOf(store)
    /\ NewId \in IdsOf(getAccounts(accMain))
    /\ vault[import.accountData.id].ssid # ""
    /\ vault[NewId].ssid # ""

(***************************************************************************)
(* AuthService of auth-service.js: the upsert _saveAccount and its callers  *)
(***************************************************************************)

\* The values Date.now() returns to the calls below, all later than the stamps
\* of the documents found at start-up.
Stamps == {2, 3}

Regions == {"NA", "eu"}

\* Object spread {...existing, ...accountData}.
spread(existing, accountData) ==
    [k \in DOMAIN existing \cup DOMAIN accountData |->
        IF k \in DOMAIN accountData THEN accountData[k] ELSE existing[k]]

\* The accountData object authenticate and submitMfa build from the user info.
authAccountData(sub, username, region, now) ==
    [id |-> sub, username |-> username, region |-> region, puuid |-> sub,
     displayName |-> username, lastUsed |-> now, createdAt |-> now]

\* _saveAccount: findIndex, then spread over the existing entry or push.
_saveAccount(accounts, accountData) ==
    IF accountData.id \in IdsOf(accounts)
    THEN LET k == CHOOSE i \in 1..Len(accounts) :
                     /\ accounts[i].id = accountData.id
                     /\ \A j \in 1..(i-1) : accounts[j].id # accountData.id
         IN [accounts EXCEPT ![k] = spread(accounts[k], accountData)]
    ELSE Append(accounts, accountData)

\* updateLastUsed of auth-service.js with the value of Date.now().
updateLastUsedAt(accounts, accountId, now) ==
    IF accountId \in IdsOf(accounts)
    THEN LET k == CHOOSE i \in 1..Len(accounts) :
                     /\ accounts[i].id = accountId
                     /\ \A j \in 1..(i-1) : accounts[j].id # accountId
         IN [accounts EXCEPT ![k].lastUsed = now]
    ELSE accounts

\* authenticate(username, password, region).  authOk is the outcome of the
\* three requests; when one fails the method returns or catches before
\* _saveAccount.  _saveAuthData is not a method of the class, so the call after
\* _saveAccount throws and the catch block returns {success: false}; the vault
\* is not written.
Authenticate(sub, region, now, authOk) ==
    /\ authOk
    /\ accMain' = _saveAccount(accMain, authAccountData(sub, sub, region, now))
    /\ store' = accMain'
    /\ UNCHANGED << platform, riotDirs, mainWindow, valorantPath, accLaunch, vault,
                    privateSettings, clientSettings, launches,
                    valorantProcessWatcher, timers, watch, controls, import,
                    removing, add, commands >>

\* submitMfa(username, code, region): the same steps after _completeMfaAuth.
SubmitMfa(sub, region, now, authOk) ==
    /\ authOk
    /\ accMain' = _saveAccount(accMain, authAccountData(sub, sub, region, now))
    /\ store' = accMain'
    /\ UNCHANGED << platform, riotDirs, mainWindow, valorantPath, accLaunch, vault,
                    privateSettings, clientSettings, launches,
                    valorantProcessWatcher, timers, watch, controls, import,
                    removing, add, commands >>

\* updateLastUsed(accountId): the store is written only when the id is found.
UpdateLastUsed(accountId, now) ==
    /\ accountId \in IdsOf(accMain)
    /\ accMain' = updateLastUsedAt(accMain, accountId, now)
    /\ store' = accMain'
    /\ UNCHANGED << platform, riotDirs, mainWindow, valorantPath, accLaunch, vault,
                    privateSettings, clientSettings, launches,
                    valorantProcessWatcher, timers, watch, controls, import,
                    removing, add, commands >>

UpsertNext ==
    \/ \E sub \in Ids, region \in Regions, now \in Stamps, ok \in BOOLEAN :
           Authenticate(sub, region, now, ok)
    \/ \E sub \in Ids, region \in Regions, now \in Stamps, ok \in BOOLEAN :
           SubmitMfa(sub, region, now, ok)
    \/ \E accountId \in Ids, now \in Stamps : UpdateLastUsed(accountId, now)

UpsertSpec == Init /\ [][UpsertNext]_vars

EntriesOf(accounts, accountId) ==
    { i \in 1..Len(accounts) : accounts[i].id = accountId }

\* C16: a step that upserts an id already in the directory leaves that
\* account's createdAt as it was, does not clear a set lastUsed, and leaves
\* exactly one entry for the id, in memory and in the persisted document; an id
\* that was not there is inserted.
C16_UpsertKeepsCreatedAt ==
    [][ \A id \in Ids :
          IF id \in IdsOf(accMain)
          THEN /\ Cardinality(EntriesOf(accMain', id)) = 1
               /\ Cardinality(EntriesOf(store', id)) = 1
               /\ getAccountById(accMain', id).createdAt
                      = getAccountById(accMain, id).createdAt
               /\ getAccountById(store', id).createdAt
                      = getAccountById(accMain, id).createdAt
               /\ getAccountById(accMain, id).lastUsed # 0
                      => getAccountById(accMain', id).lastUsed # 0
          ELSE Cardinality(EntriesOf(accMain', id)) <= 1 ]_vars

\* The session file the import would read is absent (no data directory or no
\* file) or holds no ssid or no sub cookie: the decoder returns null.
SessionUnavailable ==
    LET variant == findCurrentRiotDataPaths(riotDirs.betaData, riotDirs.betaConfig,
                                            riotDirs.defaultData, riotDirs.defaultConfig)
    IN \/ variant = "none"
       \/ ~privateSettings[variant].exists
       \/ CookieValue(privateSettings[variant].cookies, "ssid") = ""
       \/ CookieValue(privateSettings[variant].cookies, "sub") = ""

\* A step of the import handler from its idle position.
ImportStep == import.pc = "idle" /\ import' # import

\* C17: an import started while the session file is absent or decodes to null
\* ends with the error answer and never reaches the vault write, and every
\* import that ends with the error answer at the read (absent, unreadable or
\* null) leaves the account lists, the persisted document and the vault
\* unchanged.
C17_UnreadableSessionFailsUnchanged ==
    [][ ImportStep =>
          /\ SessionUnavailable => (import'.pc = "idle" /\ import'.result = "failure")
          /\ import'.pc = "idle"
               => /\ import'.result = "failure"
                  /\ UNCHANGED << store, accMain, accLaunch, vault >> ]_vars

\* C17 witness: the only two commands given were the Riot Client writing its
\* logged-out file and the import, and the import has answered with the error
\* (on the file still absent, or on the file that decodes to null).
C17_ImportFailedOnLoggedOutFile ==
    /\ import.result = "failure"
    /\ import.pc = "idle"
    /\ commands = 2
    /\ \E v \in Variants : privateSettings[v] = RiotLoggedOutFile
    /\ launches = << >>
    /\ add = IdleAdd
    /\ \A i \in Ids : removing[i] = "idle"
    /\ mainWindow

\* The entries a list holds for the ids other than accountId, in order.
OthersOf(accounts, accountId) == SelectSeq(accounts, LAMBDA acc : acc.id # accountId)

\* A step of the remove handler for accountId: the request or its completion.
RemoveStep(accountId) == removing'[accountId] # removing[accountId]

\* C18: retrieve on an id without a vault entry returns null and raises
\* nothing; a remove of an id without a vault entry completes, and each of its
\* steps leaves the vault and the entries of all other ids, in memory and in the
\* persisted document, unchanged.
C18_MissingEntryRetrieveAndDelete ==
    [][ \A id \in Ids : ~vault[id].present =>
          /\ retrieveCookiesSecurely(vault, id, TRUE)
                 = [raised |-> FALSE, cookies |-> NoCookies]
          /\ RemoveStep(id) =>
                /\ vault' = vault
                /\ OthersOf(accMain', id) = OthersOf(accMain, id)
                /\ OthersOf(accLaunch', id) = OthersOf(accLaunch, id)
                /\ OthersOf(store', id) = OthersOf(store, id) ]_vars

\* The import, respectively the add, returns from its vault write.
ImportEnds == import.pc = "storing" /\ import'.pc = "idle"

AddEnds == add.pc = "storing" /\ add'.pc = "idle"

\* C19: an add or an import whose vault write did not take place ends with the
\* error answer, and an add or import that ends with the error answer after its
\* vault write was attempted leaves every account list, in memory and
\* persisted, as it was.
C19_VaultWriteFailureLeavesDirectory ==
    [][ /\ ImportEnds =>
             /\ vault'[import.accountData.id] # import.accountData.cookies
                   => import'.result = "failure"
             /\ import'.result = "failure"
                   => UNCHANGED << accMain, accLaunch, store >>
        /\ AddEnds =>
             /\ vault'[NewId] # simulatedCookies => add'.result = "failure"
             /\ add'.result = "failure"
                   => UNCHANGED << accMain, accLaunch, store >> ]_vars

\* C19 witness: with the Riot Client logged in as b, an import and an add of a
\* new id have both ended with the error answer (the add at its vault write:
\* its id was not listed); no secret of theirs is in the vault and the lists
\* are as at start.
C19_AddAndImportFailedAtVault ==
    /\ import.result = "failure"
    /\ add.result = "failure"
    /\ commands = 3
    /\ \E v \in Variants :
          /\ privateSettings[v] = RiotSessionFile("b")
          /\ findCurrentRiotDataPaths(riotDirs.betaData, riotDirs.betaConfig,
                                      riotDirs.defaultData, riotDirs.defaultConfig) = v
    /\ ~vault["b"].present
    /\ ~vault[NewId].present
    /\ NewId \notin IdsOf(accMain)
    /\ store = <<StoredAccount("a")>>
    /\ accMain = store /\ accLaunch = store

(***************************************************************************)
(* The session file codec on its own: createPrivateSettingsYaml applied to  *)
(* a secret record, extractCookiesFromYaml applied to the written file.     *)
(* yaml.stringify and yaml.parse are taken to carry the cookie list over    *)
(* unchanged.                                                               *)
(***************************************************************************)

\* Secret records with every combination of missing and present cookies.
SecretRecords ==
    [present : {TRUE}, ssid : {"", "S-a", "T"}, sub : {"", "a", "b"},
     tdid : {"", "T"}, clid : {"", "L"}, csid : {"", "C"}]

CodecInit ==
    /\ platform = "win32"
    /\ riotDirs = RiotDirs(TRUE, FALSE, TRUE, TRUE)
    /\ mainWindow = TRUE
    /\ valorantPath = TRUE
    /\ store = <<StoredAccount("a")>>
    /\ accMain = store
    /\ accLaunch = store
    /\ vault \in { v \in [Ids -> SecretRecords \cup {NoCookies}] :
                     /\ v["a"] \in SecretRecords
                     /\ v["b"] = NoCookies
                     /\ v[NewId] = NoCookies }
    /\ privateSettings = [v \in Variants |-> NoFile]
    /\ clientSettings = [v \in Variants |-> NoClientFile]
    /\ launches = << >>
    /\ valorantProcessWatcher = 0
    /\ timers = {}
    /\ watch = [w \in LaunchIds |->
                 [found |-> FALSE, inflight |-> 0, running |-> 0, closed |-> 0,
                  queryError |-> FALSE]]
    /\ controls = renderAccounts(getAccounts(accMain))
    /\ import = IdleImport
    /\ removing = [i \in Ids |-> "idle"]
    /\ add = IdleAdd
    /\ commands = 0

\* fs.writeFile(privateSettingsPath, createPrivateSettingsYaml(cookies)).
EncodeToFile(variant) ==
    /\ privateSettings' =
           [privateSettings EXCEPT ![variant] = createPrivateSettingsYaml(vault["a"])]
    /\ UNCHANGED << platform, riotDirs, mainWindow, valorantPath, store, accMain,
                    accLaunch, vault, clientSettings, launches,
                    valorantProcessWatcher, timers, watch, controls, import,
                    removing, add, commands >>

\* readPrivateSettings + extractCookiesFromYaml on a written file; the result
\* is kept as the import keeps it, result "null" for a null return and
\* "raised" for an exception that leaves the decoder.
DecodeFile(variant) ==
    LET cookies == extractCookiesFromYaml(privateSettings[variant])
        outcome == extractCookiesOutcome(privateSettings[variant])
    IN /\ privateSettings[variant].exists
       /\ import' = [IdleImport EXCEPT
                        !.accountData = [id |-> cookies.sub, username |-> "Imported",
                                         region |-> "NA", cookies |-> cookies],
                        !.result = IF outcome = "map" THEN "decoded" ELSE outcome]
       /\ UNCHANGED << platform, riotDirs, mainWindow, valorantPath, store, accMain,
                       accLaunch, vault, privateSettings, clientSettings, launches,
                       valorantProcessWatcher, timers, watch, controls,
                       removing, add, commands >>

CodecNext ==
    \/ \E v \in Variants : EncodeToFile(v)
    \/ \E v \in Variants : DecodeFile(v)

CodecSpec == CodecInit /\ [][CodecNext]_vars

\* C20: for a secret record with non-empty ssid and sub, the cookie map decoded
\* from the document encoded from it has the record's ssid and sub.
C20_RoundTripKeepsSsidAndSub ==
    (vault["a"].ssid # "" /\ vault["a"].sub # "") =>
        /\ \A v \in Variants : privateSettings[v].exists =>
              LET decoded == extractCookiesFromYaml(privateSettings[v])
              IN /\ decoded.present
                 /\ decoded.ssid = vault["a"].ssid
                 /\ decoded.sub = vault["a"].sub
        /\ import.result # "null"
        /\ import.result = "decoded" =>
              /\ import.accountData.cookies.ssid = vault["a"].ssid
              /\ import.accountData.cookies.sub = vault["a"].sub

\* C20 witness: a record whose ssid is non-empty and whose other optional
\* cookies are all missing has been encoded and decoded.
C20_SparseRecordDecoded ==
    /\ vault["a"].ssid = "T" /\ vault["a"].sub = "b"
    /\ vault["a"].tdid = "" /\ vault["a"].clid = "" /\ vault["a"].csid = ""
    /\ import.result = "decoded"
    /\ import.accountData.cookies.ssid = "T"

(***************************************************************************)
(* The decoder on documents other programs leave in the session file.       *)
(***************************************************************************)

\* yaml.parse of an empty file (null) and of a file without the path
\* private / riot-login / persist / session / cookies.
EmptyDocument == [exists |-> TRUE]

DocumentWithoutPath == [exists |-> TRUE, install |-> "settings"]

SsidEntries ==
    { << >>,
      << Cookie("ssid", TRUE, "") >>,
      << Cookie("ssid", TRUE, "S-a") >>,
      << Cookie("ssid", TRUE, "S-a"), Cookie("ssid", TRUE, "") >>,
      << [name |-> "ssid"] >> }

SubEntries == { << >>, << Cookie("sub", FALSE, "") >>, << Cookie("sub", FALSE, "a") >> }

OtherEntries == { << >>, << NullEntry >>, << [value |-> "x"] >>, << Cookie("tdid", TRUE, "T") >> }

\* The documents the decoder is applied to.
ForeignDocuments ==
    {EmptyDocument, DocumentWithoutPath}
       \cup { [exists |-> TRUE, cookies |-> s \o o \o u] :
                 s \in SsidEntries, o \in OtherEntries, u \in SubEntries }

DecodeInit == CodecInit /\ vault["a"] = FullCookies("a")

\* Another program writes the session file.
ForeignFile(variant, doc) ==
    /\ privateSettings[variant] # doc
    /\ privateSettings' = [privateSettings EXCEPT ![variant] = doc]
    /\ UNCHANGED << platform, riotDirs, mainWindow, valorantPath, store, accMain,
                    accLaunch, vault, clientSettings, launches,
                    valorantProcessWatcher, timers, watch, controls, import,
                    removing, add, commands >>

DecodeNext ==
    \/ \E v \in Variants, doc \in ForeignDocuments : ForeignFile(v, doc)
    \/ \E v \in Variants : DecodeFile(v)

DecodeSpec == DecodeInit /\ [][DecodeNext]_vars

\* The document has an entry of that name with a non-empty value.
HasCookie(doc, name) ==
    /\ "cookies" \in DOMAIN doc
    /\ \E i \in 1..Len(doc.cookies) :
          /\ DOMAIN doc.cookies[i] = DOMAIN Cookie("", TRUE, "")
          /\ doc.cookies[i].name = name
          /\ doc.cookies[i].value # ""

\* C21: the decoder never raises; it returns null for the empty document, for
\* a document without the cookies path and for a cookie list without a
\* non-empty ssid or without a non-empty sub, and returns a map only when both
\* are present.
C21_DecodeNullNeverRaises ==
    /\ import.result # "raised"
    /\ \A v \in Variants : privateSettings[v].exists =>
          LET doc == privateSettings[v]
          IN /\ extractCookiesOutcome(doc) \in {"null", "map"}
             /\ (~HasCookie(doc, "ssid") \/ ~HasCookie(doc, "sub"))
                   => (extractCookiesOutcome(doc) = "null"
                       /\ ~extractCookiesFromYaml(doc).present)
             /\ extractCookiesFromYaml(doc).present
                   => (HasCookie(doc, "ssid") /\ HasCookie(doc, "sub"))

\* C21 witness: one file is the empty document, the other holds a null entry
\* between a valid ssid and a valid sub, and the decoder has returned null.
C21_NullOnEmptyAndNullEntry ==
    /\ import.result = "null"
    /\ \E v \in Variants : privateSettings[v] = EmptyDocument
    /\ \E v \in Variants :
          privateSettings[v] = [exists |-> TRUE,
                                cookies |-> << Cookie("ssid", TRUE, "S-a"), NullEntry,
                                               Cookie("sub", FALSE, "a") >>]

\* C22: every encoded private document holds exactly five cookie records,
\* named tdid, ssid, clid, sub, csid in this order, and the record of an
\* optional identifier the cookie set lacks has the empty string as value.
C22_FiveRecordsEmptyForMissing ==
    \A v \in Variants : privateSettings[v].exists =>
        LET list == privateSettings[v].cookies
        IN /\ Len(list) = 5
           /\ [i \in 1..5 |-> list[i].name] = << "tdid", "ssid", "clid", "sub", "csid" >>
           /\ \A i \in {1, 3, 5} : list[i].value = vault["a"][list[i].name]
           /\ \A i \in {1, 3, 5} : vault["a"][list[i].name] = "" => list[i].value = ""

\* C22 witness: a cookie set without tdid, clid and csid has been encoded.
C22_AllOptionalMissingEncoded ==
    /\ vault["a"].tdid = "" /\ vault["a"].clid = "" /\ vault["a"].csid = ""
    /\ vault["a"].ssid # "" /\ vault["a"].sub # ""
    /\ \E v \in Variants :
          /\ privateSettings[v].exists
          /\ Len(privateSettings[v].cookies) = 5

\* The ids of a list, in the order of the list.
IdSeq(accounts) == [i \in 1..Len(accounts) |-> accounts[i].id]

\* C23: a step changes the list get-accounts returns only so that the ids that
\* stay keep their relative order and every id that is new stands after all
\* the ids that were there before.
C23_ListKeepsInsertionOrder ==
    [][ LET old == IdSeq(getAccounts(accMain))
            new == IdSeq(getAccounts(accMain'))
            Old == { old[i] : i \in 1..Len(old) }
            New == { new[i] : i \in 1..Len(new) }
        IN /\ SelectSeq(new, LAMBDA id : id \in Old) = SelectSeq(old, LAMBDA id : id \in New)
           /\ \A i, j \in 1..Len(new) :
                 (new[i] \notin Old /\ new[j] \in Old) => j < i ]_vars

\* C23 witness: an account was added to a list of two, the first was removed
\* and the second stamped by a launch; the list is the second, then the new one.
C23_AddedRemovedStamped ==
    /\ IdSeq(getAccounts(accMain)) = << "b", NewId >>
    /\ getAccounts(accMain)[1].lastUsed = 1

\* C24: a launch that failed has shown a modal error box only if its failure
\* is the unconfigured Riot Client path; a launch that failed in any other way
\* has sent the error status and shown no error box.
C24_DialogOnlyWhenNotConfigured ==
    \A l \in DOMAIN launches :
        launches[l].outcome = "failure" =>
            /\ launches[l].errorEvents >= 1
            /\ launches[l].dialog # "none" <=> launches[l].error = "notConfigured"

\* C25: within one launch, the private settings file is written only after
\* closeRiotProcesses has returned and before the client settings file; the
\* client settings file is written only after the private one; the Riot Client
\* is spawned only when both files of the launch have been written.
C25_LaunchStepsOrdered ==
    [][ \A l \in DOMAIN launches :
          LET old == launches[l]
              new == launches'[l]
          IN /\ (new.wrotePrivate /\ ~old.wrotePrivate)
                   => /\ old.killed /\ ~old.wroteClient /\ ~old.spawned
                      /\ privateSettings'[new.variant] = createPrivateSettingsYaml(new.cookies)
                      /\ clientSettings' = clientSettings
             /\ (new.wroteClient /\ ~old.wroteClient)
                   => /\ old.killed /\ old.wrotePrivate /\ ~old.spawned
                      /\ clientSettings'[new.variant].exists
                      /\ privateSettings' = privateSettings
             /\ (new.spawned /\ ~old.spawned)
                   => new.killed /\ new.wrotePrivate /\ new.wroteClient
             /\ new.spawned => new.wroteClient
             /\ new.wroteClient => new.wrotePrivate
             /\ new.wrotePrivate => new.killed ]_vars

\* C25 witness: one launch has gone through all four steps and spawned the
\* Riot Client; another has stopped at the failed second write, unspawned.
C25_SpawnedAndStoppedAtSecondWrite ==
    \E l, m \in DOMAIN launches :
        /\ launches[l].spawned /\ launches[l].wroteClient /\ launches[l].killed
        /\ launches[m].pc = "done" /\ launches[m].error = "write"
        /\ launches[m].wrotePrivate /\ ~launches[m].wroteClient /\ ~launches[m].spawned

\* C26: when a launch starts, the launching status is the one status event it
\* has sent and none of its side effects has happened (vault read not
\* returned, nothing terminated, written or spawned, no watcher event); the
\* first status event of every launch stays the launching status.
C26_LaunchingStatusFirst ==
    [][ \A l \in DOMAIN launches' :
          IF l \notin DOMAIN launches
          THEN /\ launches'[l].events = << "launching" >>
               /\ launches'[l].cookies = NoCookies
               /\ ~launches'[l].killed /\ ~launches'[l].wrotePrivate
               /\ ~launches'[l].wroteClient /\ ~launches'[l].spawned
               /\ watch'[l].running = 0 /\ watch'[l].closed = 0
               /\ UNCHANGED << vault, privateSettings, clientSettings, timers >>
          ELSE /\ Len(launches'[l].events) >= 1
               /\ launches'[l].events[1] = "launching"
               /\ \A i \in 2..Len(launches'[l].events) :
                     launches'[l].events[i] # "launching" ]_vars

\* C26 witness: a launch has sent launching and then error, another launching
\* alone and has then spawned the Riot Client.
C26_LaunchingThenErrorAndSpawn ==
    \E l, m \in DOMAIN launches :
        /\ launches[l].events = << "launching", "error" >>
        /\ launches[m].events = << "launching" >>
        /\ launches[m].spawned

\* Launch l ends in this step at a failed write of one of its two files.
WriteFails(l) ==
    /\ launches[l].pc \in {"writePrivate", "writeClient"}
    /\ launches'[l].pc = "done"
    /\ launches'[l].error = "write"

\* C27: a launch that ends at a failed write of either file ends with the
\* error status and the failure result, spawns nothing, leaves the watcher
\* handle and timers as they are and leaves both files as they are at that
\* moment (a private file this launch wrote stays written); a launch that ends
\* with success has written both files in full.
C27_WriteFailureNoRollback ==
    [][ \A l \in DOMAIN launches :
          /\ WriteFails(l) =>
                /\ launches'[l].outcome = "failure"
                /\ launches'[l].events = << "launching", "error" >>
                /\ ~launches'[l].spawned
                /\ UNCHANGED << valorantProcessWatcher, timers >>
                /\ UNCHANGED << privateSettings, clientSettings >>
          /\ (launches'[l].outcome = "success" /\ launches[l].outcome # "success") =>
                /\ launches'[l].wrotePrivate /\ launches'[l].wroteClient
                /\ clientSettings'[launches[l].variant]
                       = createClientSettingsYaml(launches[l].account.region) ]_vars

\* Launch l ends in this step because no pair of Riot Client data and config
\* directories exists.
PathsUnresolved(l) ==
    /\ launches[l].pc # "done"
    /\ launches'[l].pc = "done"
    /\ launches'[l].error = "paths"

\* C28: a launch that cannot resolve the data and config directories ends with
\* the error status and the failure result, and writes no file, creates no
\* directory and spawns nothing.
C28_UnresolvedPathsFailClean ==
    [][ \A l \in DOMAIN launches : PathsUnresolved(l) =>
          /\ launches'[l].outcome = "failure"
          /\ launches'[l].events = << "launching", "error" >>
          /\ ~launches'[l].wrotePrivate /\ ~launches'[l].wroteClient
          /\ ~launches'[l].spawned
          /\ UNCHANGED << privateSettings, clientSettings, riotDirs,
                          valorantProcessWatcher, timers >> ]_vars

\* The failures the handler and launchValorant can end with before
\* closeRiotProcesses is called.
BeforeTermination ==
    {"vaultRead", "incomplete", "notFound", "notWindows", "notConfigured",
     "invalidAccount", "invalidCookies"}

\* C29: closeRiotProcesses completes for every outcome of the kill command,
\* and a launch that got as far as the termination goes on to the path
\* resolution: it either proceeds to the first file write or ends at the
\* unresolved paths, never at the termination.
C29_TerminationNeverFailsLaunch ==
    [][ /\ \A os \in Platforms, o \in KillOutcomes :
               closeRiotProcesses(os, o) = "completed"
        /\ \A l \in DOMAIN launches :
             ( /\ launches[l].pc = "retrieve"
               /\ launches'[l].pc # "retrieve"
               /\ launches'[l].error \notin BeforeTermination )
             => /\ launches'[l].killed
                /\ launches'[l].error # "kill"
                /\ launches'[l].pc = "writePrivate" \/ launches'[l].error = "paths" ]_vars

\* C29 witness: the kill command of a launch reported an error other than
\* "not found", and the launch has gone on to write its private settings file.
C29_KillErrorThenWritten ==
    \E l \in DOMAIN launches :
        /\ launches[l].killWarned
        /\ launches[l].killed
        /\ launches[l].wrotePrivate

\* A tick of watcher w completes in this step.
TickCompletes(w) == watch'[w].inflight < watch[w].inflight

\* C30: isValorantRunning never raises and answers false for every query
\* error, and a tick whose query ended with an error is handled as a tick
\* that saw the process absent: nothing before the process was seen, the
\* closed status and the stop of the watcher after it was seen (with the
\* window open), and in no case a running status.
C30_QueryErrorIsAbsent ==
    [][ /\ \A os \in Platforms, o \in QueryOutcomes :
              /\ ~isValorantRunning(os, o).raised
              /\ o \in {"exitOne", "commandError"} => ~isValorantRunning(os, o).running
        /\ \A w \in DOMAIN launches :
              (TickCompletes(w) /\ watch'[w].queryError) =>
                 /\ watch'[w].found = watch[w].found
                 /\ watch'[w].running = watch[w].running
                 /\ IF watch[w].found /\ mainWindow
                    THEN /\ watch'[w].closed = watch[w].closed + 1
                         /\ valorantProcessWatcher' = 0
                         /\ timers' = timers \ {valorantProcessWatcher}
                    ELSE /\ watch'[w].closed = watch[w].closed
                         /\ UNCHANGED << valorantProcessWatcher, timers >> ]_vars

\* C30 witness: with the window open, the last tick of a watcher that had seen
\* the process ended with a query error; closed was sent once and the timer is
\* cleared.
C30_QueryErrorSentClosed ==
    \E w \in DOMAIN launches :
        /\ mainWindow
        /\ watch[w].queryError
        /\ watch[w].found
        /\ watch[w].closed = 1
        /\ w \notin timers
        /\ valorantProcessWatcher = 0

(***************************************************************************)
(* Path resolution on every combination of existing directories.            *)
(***************************************************************************)

PathsInit ==
    /\ platform = "win32"
    /\ riotDirs \in [betaData : BOOLEAN, betaConfig : BOOLEAN,
                     defaultData : BOOLEAN, defaultConfig : BOOLEAN]
    /\ mainWindow = TRUE
    /\ valorantPath = TRUE
    /\ store \in InitDocuments
    /\ accMain = store
    /\ accLaunch = store
    /\ vault = [i \in Ids |-> IF i \in IdsOf(store) THEN FullCookies(i) ELSE NoCookies]
    /\ privateSettings = [v \in Variants |-> NoFile]
    /\ clientSettings = [v \in Variants |-> NoClientFile]
    /\ launches = << >>
    /\ valorantProcessWatcher = 0
    /\ timers = {}
    /\ watch = [w \in LaunchIds |->
                 [found |-> FALSE, inflight |-> 0, running |-> 0, closed |-> 0,
                  queryError |-> FALSE]]
    /\ controls = renderAccounts(getAccounts(accMain))
    /\ import = IdleImport
    /\ removing = [i \in Ids |-> "idle"]
    /\ add = IdleAdd
    /\ commands = 0

\* The commands that resolve the directories: launch and import.
PathsNext ==
    \/ \E i \in Ids : LaunchRequest(i)
    \/ \E l \in DOMAIN launches : LaunchValidate(l, TRUE, TRUE, "killed")
    \/ \E l \in DOMAIN launches : LaunchWritePrivate(l, TRUE)
    \/ \E l \in DOMAIN launches : LaunchWriteClient(l, TRUE, TRUE)
    \/ \E v \in Variants, i \in RiotIds : RiotClientLogin(v, i)
    \/ ImportRead(TRUE)
    \/ ImportStored(TRUE)

PathsSpec == PathsInit /\ [][PathsNext]_vars

\* C31: the resolution returns the beta pair exactly when both beta
\* directories exist, otherwise the default pair exactly when both default
\* directories exist, otherwise it fails; data and config path are always of
\* the same variant, and a launch works on the variant resolved or ends at
\* the failed resolution.
C31_PathResolution ==
    LET paths == riotDataPaths(riotDirs.betaData, riotDirs.betaConfig,
                               riotDirs.defaultData, riotDirs.defaultConfig)
        beta  == riotDirs.betaData /\ riotDirs.betaConfig
        dflt  == riotDirs.defaultData /\ riotDirs.defaultConfig
    IN /\ paths.dataPath = paths.configPath
       /\ paths.dataPath = "beta" <=> beta
       /\ paths.dataPath = "default" <=> (~beta /\ dflt)
       /\ paths.dataPath = "none" <=> (~beta /\ ~dflt)
       /\ \A l \in DOMAIN launches :
             /\ launches[l].wrotePrivate =>
                   (launches[l].variant = paths.dataPath /\ paths.dataPath # "none")
             /\ launches[l].error = "paths" <=>
                   (launches[l].killed /\ paths.dataPath = "none")

\* C31 witness: with a beta config directory but no beta data directory, a
\* launch has written both files of the default pair.
C31_HalfBetaUsesDefault ==
    /\ riotDirs = RiotDirs(FALSE, TRUE, TRUE, TRUE)
    /\ \E l \in DOMAIN launches :
          /\ launches[l].variant = "default"
          /\ launches[l].wroteClient
          /\ clientSettings["default"].exists
          /\ ~clientSettings["beta"].exists

\* The names of the cookies of an encoded document that carry httpOnly = true.
HttpOnlyNames(file) ==
    { file.cookies[i].name : i \in { j \in 1..Len(file.cookies) : file.cookies[j].httpOnly } }

\* C32: in every encoded private document the primary session id cookie and
\* the three auxiliary id cookies tdid, clid and csid have httpOnly = true, and
\* the owner id cookie sub has httpOnly = false.
C32_HttpOnlyOnAllButSub ==
    \A v \in Variants : privateSettings[v].exists =>
        HttpOnlyNames(privateSettings[v]) = {"ssid", "tdid", "clid", "csid"}

\* C32 as stated: the primary session id cookie and exactly two of the
\* auxiliary id cookies have httpOnly = true, the owner id cookie has not.
C32_TwoAuxiliaryHttpOnly ==
    \A v \in Variants : privateSettings[v].exists =>
        LET names == HttpOnlyNames(privateSettings[v])
        IN /\ "ssid" \in names
           /\ "sub" \notin names
           /\ Cardinality(names \cap {"tdid", "clid", "csid"}) = 2

\* C32 witness: a full cookie set has been encoded and its five records carry
\* four httpOnly flags.
C32_FullRecordEncoded ==
    /\ vault["a"] = FullCookies("a")
    /\ \E v \in Variants :
          /\ privateSettings[v].exists
          /\ Len(privateSettings[v].cookies) = 5
          /\ Cardinality(HttpOnlyNames(privateSettings[v])) = 4
          /\ ~privateSettings[v].cookies[4].httpOnly

\* C33: an installed watcher timer is cancelled only by a tick of its own that
\* reports closed, by a later launch that installs another watcher, or by the
\* window closing; a tick of a replaced watcher never cancels it.
C33_OnlyOwnTickCancels ==
    [][ \A w \in timers :
          w \notin timers'
          => \/ watch'[w].closed > watch[w].closed
             \/ valorantProcessWatcher' \notin {0, w}
             \/ (mainWindow /\ ~mainWindow') ]_vars

\* C34: an id leaves the persisted account document only in a step of
\* remove-account for that id; no add, import, launch or remove of another id
\* writes back a list that lacks it.
C34_OnlyRemoveDeletesFromDocument ==
    [][ \A id \in IdsOf(store) :
          id \notin IdsOf(store') => RemoveStep(id) ]_vars

\* C35: when the second of two successful launches of different accounts
\* returns and no launch is in flight, the private settings file and the
\* client settings file hold the cookies and the region of one and the same
\* launch, and the installed watcher is the watcher of that launch's account.
C35_FilesAndWatcherOfOneLaunch ==
    [][ \A l \in DOMAIN launches :
          ( /\ Returns(l)
            /\ Len(launches) = 2
            /\ launches[1].id # launches[2].id
            /\ \A k \in DOMAIN launches :
                  launches'[k].pc = "done" /\ launches'[k].outcome = "success" )
          => \E w \in DOMAIN launches :
                LET rec == launches'[w]
                IN /\ privateSettings'[rec.variant] = createPrivateSettingsYaml(rec.cookies)
                   /\ clientSettings'[rec.variant] = createClientSettingsYaml(rec.account.region)
                   /\ valorantProcessWatcher' # 0
                   /\ launches'[valorantProcessWatcher'].id = rec.id ]_vars

(***************************************************************************)
(* Imports that overlap: the import button is disabled only in the window   *)
(* that started the import; a window created by 'activate' has it enabled.  *)
(***************************************************************************)

\* The click on "Import Current" in a new window while the import started in
\* the closed window still awaits keytar.setPassword: the same steps as
\* ImportRead, up to the await in addImportedAccount. `exists` is the result
\* of this.accounts.some(...) at that moment. A second import whose read
\* fails answers with the error and leaves the first as it is. The step is
\* possible once per import left behind by a closed window.
ImportOverlap ==
    LET variant == findCurrentRiotDataPaths(riotDirs.betaData, riotDirs.betaConfig,
                                            riotDirs.defaultData, riotDirs.defaultConfig)
        doc     == IF variant = "none" THEN NoFile ELSE privateSettings[variant]
        cookies == IF doc.exists THEN extractCookiesFromYaml(doc) ELSE NoCookies
        data    == [id |-> cookies.sub, username |-> "Imported", region |-> "NA",
                    cookies |-> cookies]
    IN /\ mainWindow
       /\ import.pc = "storing"
       /\ ~import.renderer
       /\ doc.exists /\ cookies.present /\ cookies.ssid # "" /\ cookies.sub # ""
       /\ import' = [pc |-> "overlap", accountData |-> import.accountData,
                     exists |-> import.exists, renderer |-> TRUE, result |-> "none",
                     second |-> [accountData |-> data,
                                 exists |-> data.id \in IdsOf(accLaunch)]]
       /\ UNCHANGED << platform, riotDirs, mainWindow, valorantPath, store, accMain, accLaunch,
                       vault, privateSettings, clientSettings, launches,
                       valorantProcessWatcher, timers, watch, controls, removing, add,
                       commands >>

\* keytar.setPassword of one of two overlapping imports settles, the first
\* one's or the second one's, and the rest of addImportedAccount runs; the
\* other import stays in flight.
ImportOverlapStored(first) ==
    LET one   == [accountData |-> import.accountData, exists |-> import.exists]
        cur   == IF first THEN one ELSE import.second
        rest  == IF first THEN import.second ELSE one
        data  == cur.accountData
        shown == ~first /\ import.renderer /\ mainWindow
    IN /\ import.pc = "overlap"
       /\ vault' = [vault EXCEPT ![data.id] = data.cookies]
       /\ IF cur.exists /\ data.id \notin IdsOf(accLaunch)
          THEN UNCHANGED << accLaunch, store, controls, launches >>
          ELSE /\ accLaunch' = IF cur.exists
                               THEN updateImportedAccount(accLaunch, data)
                               ELSE pushImportedAccount(accLaunch, data)
               /\ store' = accLaunch'
               /\ IF shown
                  THEN /\ controls' = renderAccounts(getAccounts(accMain))
                       /\ launches' = [l \in DOMAIN launches |->
                                         [launches[l] EXCEPT !.node = FALSE]]
                  ELSE UNCHANGED << controls, launches >>
       /\ import' = [pc |-> "storing", accountData |-> rest.accountData,
                     exists |-> rest.exists,
                     renderer |-> IF first THEN import.renderer ELSE FALSE,
                     result |-> "none"]
       /\ UNCHANGED << platform, riotDirs, mainWindow, valorantPath, accMain,
                       privateSettings, clientSettings,
                       valorantProcessWatcher, timers, watch, removing, commands, add >>

\* The app on macOS with the Riot Client logged in before the app starts.
ImportInit ==
    /\ platform = "darwin"
    /\ riotDirs = RiotDirs(TRUE, FALSE, TRUE, TRUE)
    /\ mainWindow = TRUE
    /\ valorantPath = FALSE
    /\ store \in InitDocuments
    /\ accMain = store
    /\ accLaunch = store
    /\ vault = [i \in Ids |-> IF i \in IdsOf(store) THEN FullCookies(i) ELSE NoCookies]
    /\ \E owner \in RiotIds :
          privateSettings = [v \in Variants |->
                               IF v = "default" THEN RiotSessionFile(owner) ELSE NoFile]
    /\ clientSettings = [v \in Variants |-> NoClientFile]
    /\ launches = << >>
    /\ valorantProcessWatcher = 0
    /\ timers = {}
    /\ watch = [w \in LaunchIds |->
                 [found |-> FALSE, inflight |-> 0, running |-> 0, closed |-> 0,
                  queryError |-> FALSE]]
    /\ controls = renderAccounts(getAccounts(accMain))
    /\ import = IdleImport
    /\ removing = [i \in Ids |-> "idle"]
    /\ add = IdleAdd
    /\ commands = 0

\* The commands that change the account list, and the window being closed
\* and created again.
ImportNext ==
    \/ ImportRead(TRUE)
    \/ ImportStored(TRUE)
    \/ ImportOverlap
    \/ \E first \in BOOLEAN : ImportOverlapStored(first)
    \/ AddRequest
    \/ AddStored(TRUE)
    \/ \E i \in Ids : RemoveRequest(i)
    \/ \E i \in Ids : RemoveDone(i, TRUE)
    \/ WindowClosed
    \/ Activate

ImportSpec == ImportInit /\ [][ImportNext]_vars

WatcherFairness ==
    \A l \in LaunchIds :
        /\ WF_vars(l \in DOMAIN launches
                   /\ \E inst \in BOOLEAN : LaunchValidate(l, TRUE, inst, "killed"))
        /\ WF_vars(l \in DOMAIN launches /\ LaunchWritePrivate(l, TRUE))
        /\ WF_vars(l \in DOMAIN launches /\ LaunchWriteClient(l, TRUE, TRUE))
        /\ WF_vars(l \in DOMAIN launches /\ TickStart(l))
        /\ WF_vars(l \in DOMAIN launches
                   /\ \E outcome \in QueryOutcomes : TickDone(l, outcome))

WatcherLiveSpec == Init /\ [][WatcherNext]_vars /\ WatcherFairness

\* The watcher of a successful launch of accountId was replaced by the watcher
\* of another account while the launch control of accountId is disabled.
ReplacedWhileDisabled(accountId) ==
    /\ Disabled(controls[accountId])
    /\ \E w \in DOMAIN launches :
          launches[w].id = accountId /\ launches[w].outcome = "success"
    /\ valorantProcessWatcher # 0
    /\ launches[valorantProcessWatcher].id # accountId

\* C37: when the watcher of account A is replaced by the watcher of another
\* account while A's launch control is disabled, A's control is eventually
\* enabled again or removed with the window.
C37_ReplacedAccountActionableAgain ==
    \A accountId \in Ids :
        ReplacedWhileDisabled(accountId) ~> ~Disabled(controls[accountId])

\* remove-account for the account of launch l has returned: the account was in
\* the list when the launch was requested, is not any more, and no remove of
\* it is pending.
RemovedSinceRequest(l) ==
    /\ launches[l].account # NoAccount
    /\ launches[l].id \notin IdsOf(accMain)
    /\ removing[launches[l].id] = "idle"

\* C38: once remove-account(id) has returned, no step of a launch of id writes
\* a config file, spawns the client or installs a watcher.
C38_NoLaunchStepAfterRemove ==
    [][ \A l \in DOMAIN launches :
          RemovedSinceRequest(l)
          => /\ launches'[l].wrotePrivate = launches[l].wrotePrivate
             /\ launches'[l].wroteClient = launches[l].wroteClient
             /\ launches'[l].spawned = launches[l].spawned
             /\ (valorantProcessWatcher' = l => valorantProcessWatcher = l) ]_vars

\* C39: while the main window is closed no watcher timer is installed, and no
\* step sends a launch status event, also when a launch that was in flight at
\* the closing completes.
C39_ClosedWindowQuiet ==
    [][ ~mainWindow' =>
          /\ timers' = {}
          /\ ~mainWindow =>
                \A l \in DOMAIN launches :
                   /\ launches'[l].events = launches[l].events
                   /\ ~EventEmitted(l) ]_vars

====
